---- MODULE Spec2Model ----
(***************************************************************************)
(* Change detection (DeltaDetector), state persistence (StateManager) and  *)
(* the run of the daily scraper job (DailyScraperJob, main), and the two   *)
(* chunkers (VectorStoreUploader._create_chunks, MarkdownChunker), as      *)
(* state machines.                                                         *)
(*                                                                         *)
(* SpecDetect  : detect_changes called twice on the same inputs, the wall  *)
(*               clock advancing as it may.                                *)
(* SpecStore   : load_state, save_state, reset_state and import_state on   *)
(*               all kinds of files and snapshots, with I/O failures and   *)
(*               interruptions, a few operations deep.                     *)
(* SpecBackups : long runs of successful saves, resets and imports, deep   *)
(*               enough for the backup directory to be pruned.             *)
(* SpecRun     : main() and DailyScraperJob.run over a state file, with    *)
(*               scrapes, uploads and saves that may fail.                 *)
(* SpecChunks  : _create_chunks on one article, window by window.          *)
(* SpecMarkdown: MarkdownChunker.chunk_file on one document.               *)
(* SpecHash    : compute_content_hash on two texts and on what it hashes.   *)
(***************************************************************************)
EXTENDS Integers, Sequences, FiniteSets, TLC

VARIABLES
    settings,   \* Settings: the three delta-detection toggles
    previous,   \* previous_articles: id -> snapshot entry
    current,    \* current_articles: list of documents
    clock,      \* the wall clock (days of January 2024)
    changes,    \* the results of the calls of detect_changes made so far
    canon,      \* the canonical state file (settings.state_file)
    tmp,        \* the temporary file state_file.with_suffix('.tmp')
    backups,    \* the backup directory: file name -> file
    sec,        \* the wall clock, in whole seconds
    now,        \* the wall clock, at the resolution of file times
    loaded,     \* the outcome of the last load_state
    lastOp,     \* the last StateManager operation and how it ended
    before,     \* the canonical file and the backups before that operation
    stats,      \* DailyScraperJob.stats of the job object
    run,        \* the runs made so far and how the last one went
    exit,       \* the exit status of the last main(): <<>> or <<code>>
    doc,        \* the article or document given to a chunker
    chunks,     \* the chunks made so far, in order
    loop,       \* where the chunker is: pc, start, chunk_index, windows
    texts,      \* the texts given to compute_content_hash
    hashes      \* the digests computed so far

detectVars == <<settings, previous, current, clock, changes>>

storeVars == <<canon, tmp, backups, sec, now, loaded, lastOp, before>>

runVars == <<stats, run, exit>>

chunkVars == <<doc, chunks, loop>>

hashVars == <<texts, hashes>>

vars == <<detectVars, storeVars, runVars, chunkVars, hashVars>>

(***************************************************************************)
(* Python values                                                           *)
(***************************************************************************)
\* None; dict.get(key) also gives it for an absent key
None == "<None>"
\* None as a title (titles are sequences of characters)
NoneT == <<"<None>">>
\* a key or file that is not there
Absent == "<absent>"

\* bool(v) of a string or None
Truthy(v) == v # None /\ v # ""

RECURSIVE LStrip(_)
LStrip(s) == IF s # <<>> /\ Head(s) = " " THEN LStrip(Tail(s)) ELSE s

RECURSIVE RStrip(_)
RStrip(s) == IF s # <<>> /\ s[Len(s)] = " " THEN RStrip(SubSeq(s, 1, Len(s) - 1)) ELSE s

\* str.strip()
Strip(s) == RStrip(LStrip(s))

(***************************************************************************)
(* Bounds and input domains                                                *)
(***************************************************************************)
\* the last day the wall clock reaches
MaxClock == 3

\* the day the wall clock shows at the first call
ClockStart == 2

BadDate == "Wed, 21 Oct 2015 07:28:00 GMT"
Day1Z == "2024-01-01T00:00:00Z"
Day1Offset == "2024-01-01T00:00:00+00:00"
Day4Offset == "2024-01-04T00:00:00+00:00"
Day1Naive == "2024-01-01T00:00:00"

LastMods == {None, BadDate, Day1Z, Day4Offset, Day1Naive}

Hashes == {None, "h1", "h2"}

TitleA == <<"a">>
TitleAPadded == <<"a", " ">>
TitleB == <<"b">>

SettingsSet ==
    [enable_hash_detection : BOOLEAN,
     enable_lastmod_detection : BOOLEAN,
     force_full_update : BOOLEAN]

(***************************************************************************)
(* DeltaDetector                                                           *)
(***************************************************************************)
\* date_str.replace('Z', '+00:00') when date_str ends with 'Z'
ReplaceZ(date_str) == IF date_str = Day1Z THEN Day1Offset ELSE date_str

IsoStrings == {Day1Offset, Day4Offset, Day1Naive}

\* datetime.fromisoformat on the strings it accepts
FromIsoformat(s) ==
    CASE s = Day1Offset -> [aware |-> TRUE, t |-> 1]
      [] s = Day4Offset -> [aware |-> TRUE, t |-> 4]
      [] s = Day1Naive -> [aware |-> FALSE, t |-> 1]

\* _parse_date: the parsed datetime, or datetime.now(timezone.utc) when the
\* string does not parse; utcnow is the wall clock at the time of the call
ParseDate(date_str, utcnow) ==
    IF ReplaceZ(date_str) \in IsoStrings
    THEN FromIsoformat(ReplaceZ(date_str))
    ELSE [aware |-> TRUE, t |-> utcnow]

\* HashSignal without its "no previous hash" branch
HashSignalBothOnly(prev_hash, curr_hash) ==
    Truthy(prev_hash) /\ Truthy(curr_hash) /\ prev_hash # curr_hash

\* the hash branch of _is_article_updated
HashSignal(prev_hash, curr_hash) ==
    IF Truthy(prev_hash) /\ Truthy(curr_hash)
    THEN prev_hash # curr_hash
    ELSE ~Truthy(prev_hash) /\ Truthy(curr_hash)

\* the Last-Modified branch: comparing an aware with a naive datetime raises
\* TypeError, which the branch catches and ignores
LastmodSignal(prev_lastmod, curr_lastmod, now1, now2) ==
    IF Truthy(prev_lastmod) /\ Truthy(curr_lastmod)
    THEN LET prev_dt == ParseDate(prev_lastmod, now1)
             curr_dt == ParseDate(curr_lastmod, now2)
         IN  IF prev_dt.aware # curr_dt.aware THEN FALSE ELSE curr_dt.t > prev_dt.t
    ELSE FALSE

\* the title branch: "raise" is the AttributeError of None.strip()
TitleSignal(prev_title, curr_title) ==
    IF prev_title = NoneT \/ curr_title = NoneT THEN "raise"
    ELSE IF Strip(prev_title) # Strip(curr_title) THEN "updated"
    ELSE "unchanged"

\* _is_article_updated: "updated" (True), "unchanged" (False) or "raise";
\* now1 and now2 are the wall clock at the two calls of _parse_date
IsArticleUpdated(s, previous_meta, current_article, now1, now2) ==
    IF s.enable_hash_detection
       /\ HashSignal(previous_meta.hash, current_article.content_hash)
    THEN "updated"
    ELSE IF s.enable_lastmod_detection
            /\ LastmodSignal(previous_meta.last_modified,
                             current_article.last_modified, now1, now2)
    THEN "updated"
    ELSE TitleSignal(previous_meta.title, current_article.title)

\* {article['id']: article for article in current_articles}: the last
\* document of an id wins
CurrentLookup(current_articles) ==
    [id \in {current_articles[i].id : i \in DOMAIN current_articles} |->
        LET last == CHOOSE i \in DOMAIN current_articles :
                        /\ current_articles[i].id = id
                        /\ \A j \in DOMAIN current_articles :
                               current_articles[j].id = id => j <= i
        IN  current_articles[last]]

\* AddedIds without the subtraction of the previous ids
AddedIdsAll(previous_ids, current_ids) == current_ids

AddedIds(previous_ids, current_ids) == current_ids \ previous_ids

RemovedIds(previous_ids, current_ids) == previous_ids \ current_ids

CommonIds(previous_ids, current_ids) == current_ids \cap previous_ids

\* the class of every common id when force_full_update is off; order is the
\* iteration order of the set common_ids, reads the wall clock at the
\* successive places where _parse_date may read it
ClassOf(s, previous_articles, current_lookup, order, reads) ==
    [k \in DOMAIN order |->
        IsArticleUpdated(s, previous_articles[order[k]], current_lookup[order[k]],
                         reads[2 * k - 1], reads[2 * k])]

\* UpdatedIds without the force_full_update override
UpdatedIdsNoForce(s, common_ids, order, class) ==
    {order[k] : k \in {j \in DOMAIN order : class[j] = "updated"}}

\* updated_ids of detect_changes
UpdatedIds(s, common_ids, order, class) ==
    IF s.force_full_update THEN common_ids
    ELSE {order[k] : k \in {j \in DOMAIN order : class[j] = "updated"}}

\* unchanged_ids of detect_changes
UnchangedIds(s, common_ids, order, class) ==
    IF s.force_full_update THEN {}
    ELSE {order[k] : k \in {j \in DOMAIN order : class[j] = "unchanged"}}

\* detect_changes; raised is set when _is_article_updated raised, and then
\* nothing is returned
DetectChanges(s, previous_articles, current_articles, order, reads) ==
    LET current_lookup == CurrentLookup(current_articles)
        previous_ids == DOMAIN previous_articles
        current_ids == DOMAIN current_lookup
        common_ids == CommonIds(previous_ids, current_ids)
        class == ClassOf(s, previous_articles, current_lookup, order, reads)
    IN  IF ~s.force_full_update /\ \E k \in DOMAIN order : class[k] = "raise"
        THEN [raised |-> TRUE, added |-> {}, updated |-> {},
              unchanged |-> {}, removed |-> {}]
        ELSE [raised |-> FALSE,
              added |-> AddedIds(previous_ids, current_ids),
              updated |-> UpdatedIds(s, common_ids, order, class),
              unchanged |-> UnchangedIds(s, common_ids, order, class),
              removed |-> RemovedIds(previous_ids, current_ids)]

\* the orders in which a set can be iterated
Orders(S) ==
    {o \in [1..Cardinality(S) -> S] : \A i, j \in DOMAIN o : o[i] = o[j] => i = j}

\* the readings of a clock that starts at lo and never runs backwards
ClockReads(n, lo) ==
    {r \in [1..n -> lo..MaxClock] : \A i \in 1..(n - 1) : r[i] <= r[i + 1]}

(***************************************************************************)
(* DeltaDetector: inputs                                                   *)
(***************************************************************************)
EntryY == [hash |-> "h1", last_modified |-> None, title |-> TitleA]

\* an entry whose title is null in the state file
EntryYNoTitle == [hash |-> "h1", last_modified |-> None, title |-> NoneT]

DocY(h) == [id |-> "y", content_hash |-> h, last_modified |-> None, title |-> TitleA]

DocZ == [id |-> "z", content_hash |-> "h2", last_modified |-> None, title |-> TitleB]

\* an earlier document of id x in the same list
DocXEarlier == [id |-> "x", content_hash |-> "h2", last_modified |-> None, title |-> TitleB]

EmptyMap == [i \in {} |-> None]

\* the documents around the one under study
Contexts ==
    {[prev |-> EmptyMap, cur |-> <<>>],
     [prev |-> [i \in {"y"} |-> EntryY], cur |-> <<>>],
     [prev |-> EmptyMap, cur |-> <<DocY("h1"), DocZ>>],
     [prev |-> [i \in {"y"} |-> EntryY], cur |-> <<DocY("h1")>>],
     [prev |-> [i \in {"y", "z"} |-> EntryY], cur |-> <<DocY("h2")>>],
     [prev |-> EmptyMap, cur |-> <<DocXEarlier>>],
     [prev |-> [i \in {"y"} |-> EntryYNoTitle], cur |-> <<DocY("h1")>>]}

XEntries ==
    [hash : {None, "h1"}, last_modified : LastMods,
     title : {TitleA, TitleAPadded, NoneT}]

XDocs ==
    [id : {"x"}, content_hash : Hashes, last_modified : LastMods,
     title : {TitleA, TitleB, NoneT}]

\* none or one of the elements of S, as a sequence
Opt(S) == {<<>>} \cup {<<e>> : e \in S}

WithX(prev, xe) ==
    IF xe = <<>> THEN prev
    ELSE [i \in DOMAIN prev \cup {"x"} |-> IF i = "x" THEN xe[1] ELSE prev[i]]

(***************************************************************************)
(* StateManager: files and snapshots                                       *)
(***************************************************************************)
\* backup_files[10:] are removed
KeepBackups == 10

\* the operations of one behaviour of SpecStore
MaxStoreOps == 3

\* the operations of one behaviour of SpecBackups
MaxBackupOps == 13

\* the operations of SpecBackups that may fall into the second of the
\* operation before them
MaxSameSecond == 1

\* the value of the key 'articles' of a state dict
NoArticles == [type |-> "missing", items |-> EmptyMap]

NullArticles == [type |-> "null", items |-> EmptyMap]

DictArticles(items) == [type |-> "dict", items |-> items]

\* {}: a dict without any of the keys; saved_at is <<>> or <<time>>
EmptyState ==
    [last_run |-> None, articles |-> NoArticles, saved_at |-> <<>>,
     version |-> None, serializable |-> TRUE]

\* a file: kind is "absent", "object" (a JSON object, data), "array" (valid
\* JSON that is not an object), "garbage" (not JSON), "partial" (the cut-off
\* output of a write that did not finish) or "unreadable" (open fails)
AbsentFile == [kind |-> "absent", data |-> EmptyState, mtime |-> 0]

File(kind, data, mtime) == [kind |-> kind, data |-> data, mtime |-> mtime]

Exists(f) == f.kind # "absent"

\* len(articles) is defined
Sized(articles) == articles.type # "null"

\* {**state, 'saved_at': now, 'version': '1.0'}, as json.dump writes it
StateWithMetaOnly(state, t) ==
    [EmptyState EXCEPT !.saved_at = <<t>>, !.version = "1.0"]

\* the state written without a new saved_at
StateWithMetaUnstamped(state, t) ==
    [state EXCEPT !.version = "1.0", !.serializable = TRUE]

StateWithMeta(state, t) ==
    [state EXCEPT !.saved_at = <<t>>, !.version = "1.0", !.serializable = TRUE]

\* load_state: {} when the file is absent, when open or json.load raises,
\* when the value is no dict, and when len(state.get('articles', {})) raises
LoadState(f) ==
    IF f.kind = "object" /\ Sized(f.data.articles)
    THEN [raised |-> FALSE, type |-> "dict", value |-> f.data]
    ELSE [raised |-> FALSE, type |-> "dict", value |-> EmptyState]

\* strftime('%Y%m%d_%H%M%S'): the backup's name is the second it is made in
BackupName(s) == s

Min(a, b) == IF a < b THEN a ELSE b

\* _cleanup_old_backups sorting oldest first
CleanupKeepsOldest(b) ==
    {K \in SUBSET DOMAIN b :
        /\ Cardinality(K) = Min(KeepBackups, Cardinality(DOMAIN b))
        /\ \A k \in K, p \in DOMAIN b \ K : b[k].mtime <= b[p].mtime}

\* _cleanup_old_backups: the sets of names it may keep, the 10 files of the
\* latest st_mtime (files of equal st_mtime stay in directory order)
CleanupKeeps(b) ==
    {K \in SUBSET DOMAIN b :
        /\ Cardinality(K) = Min(KeepBackups, Cardinality(DOMAIN b))
        /\ \A k \in K, p \in DOMAIN b \ K : b[k].mtime >= b[p].mtime}

\* _create_backup: the backup directories it may leave. shutil.copy2 keeps
\* the st_mtime of the state file; when the copy fails the exception is
\* logged and nothing else happens
CreateBackup(c, b, s, copy_ok) ==
    IF ~copy_ok THEN {b}
    ELSE LET copied == [n \in DOMAIN b \cup {BackupName(s)} |->
                            IF n = BackupName(s) THEN c ELSE b[n]]
         IN  {[n \in K |-> copied[n]] : K \in CleanupKeeps(copied)}

\* writing the temporary file in place of the state file
WriteInPlace(c, t, f, complete) ==
    [canon |-> IF complete THEN f ELSE File("partial", EmptyState, f.mtime),
     tmp |-> t]

\* open(temp_file, 'w') and json.dump: the temporary file holds the whole
\* text, or a part of it when the dump did not finish
WriteTemp(c, t, f, complete) ==
    [canon |-> c,
     tmp |-> IF complete THEN f ELSE File("partial", EmptyState, f.mtime)]

\* temp_file.replace(self.state_file)
ReplaceTemp(c, t) == [canon |-> t, tmp |-> AbsentFile]

Faults == {"none", "copy", "open", "dump", "replace"}

Kills == {"kill_after_backup", "kill_writing", "kill_before_replace"}

\* save_state(state) at second s and time t: the outcomes [canon, tmp,
\* backups, ret] under a fault (a failing I/O call) or a kill (the process
\* stops at that place); ret is "True", "False" or "killed"
SaveState(state, c, t0, b, s, t, how) ==
    LET bs == IF Exists(c) THEN CreateBackup(c, b, s, how # "copy") ELSE {b}
        full == File("object", StateWithMeta(state, t), t)
        complete == state.serializable /\ how \notin {"dump", "kill_writing"}
        w == WriteTemp(c, t0, full, complete)
        r == ReplaceTemp(w.canon, w.tmp)
        Out(cc, tt, b1, ret) == [canon |-> cc, tmp |-> tt, backups |-> b1, ret |-> ret]
    IN  {IF how = "kill_after_backup" THEN Out(c, t0, b1, "killed")
         ELSE IF how = "open" THEN Out(c, t0, b1, "False")
         ELSE IF how = "kill_writing" THEN Out(w.canon, w.tmp, b1, "killed")
         ELSE IF ~complete THEN Out(w.canon, w.tmp, b1, "False")
         ELSE IF how = "kill_before_replace" THEN Out(w.canon, w.tmp, b1, "killed")
         ELSE IF how = "replace" THEN Out(w.canon, w.tmp, b1, "False")
         ELSE Out(r.canon, r.tmp, b1,
                  IF Sized(state.articles) THEN "True" ELSE "False")
         : b1 \in bs}

\* reset_state: back up, then unlink
ResetState(c, t0, b, s, how) ==
    IF ~Exists(c)
    THEN {[canon |-> c, tmp |-> t0, backups |-> b, ret |-> "True"]}
    ELSE {[canon |-> IF how = "unlink" THEN c ELSE AbsentFile,
           tmp |-> t0, backups |-> b1,
           ret |-> IF how = "unlink" THEN "False" ELSE "True"]
          : b1 \in CreateBackup(c, b, s, how # "copy")}

\* import_state without the isinstance check
ImportStateUnchecked(f, c, t0, b, s, t, how) == SaveState(f.data, c, t0, b, s, t, how)

\* import_state(import_path): json.load, the isinstance check, save_state
ImportState(f, c, t0, b, s, t, how) ==
    IF f.kind # "object"
    THEN {[canon |-> c, tmp |-> t0, backups |-> b, ret |-> "False"]}
    ELSE SaveState(f.data, c, t0, b, s, t, how)

(***************************************************************************)
(* StateManager: inputs                                                    *)
(***************************************************************************)
EntryX == [hash |-> "h2", last_modified |-> Day1Z, title |-> TitleB]

State1 ==
    [EmptyState EXCEPT !.last_run = "run1",
                       !.articles = DictArticles([i \in {"y"} |-> EntryY])]

State2 ==
    [EmptyState EXCEPT !.last_run = "run2",
                       !.articles = DictArticles([i \in {"x", "y"} |->
                                        IF i = "x" THEN EntryX ELSE EntryY])]

\* a dict whose 'articles' is None
StateNullArticles == [EmptyState EXCEPT !.last_run = "run1", !.articles = NullArticles]

\* a dict holding a value json.dump cannot write
StateUnserializable == [State1 EXCEPT !.serializable = FALSE]

SaveInputs == {State1, State2, StateNullArticles, StateUnserializable}

\* what may lie at the state file's or an import file's path
DiskFiles ==
    {AbsentFile,
     File("object", StateWithMeta(State1, 0), 0),
     File("object", StateWithMeta(StateNullArticles, 0), 0),
     File("array", EmptyState, 0),
     File("garbage", EmptyState, 0),
     File("unreadable", EmptyState, 0)}

NoOp == [op |-> "none", ret |-> "none", how |-> "none", arg |-> EmptyState,
         src |-> "none"]

\* src: what lay at import_state's import_file, "none" for the other operations
Op(op, ret, how, arg) ==
    [op |-> op, ret |-> ret, how |-> how, arg |-> arg, src |-> "none"]

\* the StateManager of a job that has not touched its files
StoreIdle ==
    /\ canon = AbsentFile
    /\ tmp = AbsentFile
    /\ backups = EmptyMap
    /\ sec = 0
    /\ now = 0
    /\ loaded = LoadState(AbsentFile)
    /\ lastOp = NoOp
    /\ before = [canon |-> AbsentFile, backups |-> EmptyMap]

DetectIdle ==
    /\ settings = [enable_hash_detection |-> TRUE, enable_lastmod_detection |-> TRUE,
                   force_full_update |-> FALSE]
    /\ previous = EmptyMap
    /\ current = <<>>
    /\ clock = ClockStart
    /\ changes = <<>>

\* self.stats of a DailyScraperJob just constructed; end_time is whether
\* stats['end_time'] holds a datetime (it starts as None)
NewStats == [end_time |-> FALSE, added |-> 0, updated |-> 0, skipped |-> 0, errors |-> 0]

\* a ChangeSet of no call
NoChanges ==
    [raised |-> FALSE, added |-> {}, updated |-> {}, unchanged |-> {}, removed |-> {}]

NoRun ==
    [n |-> 0, via |-> "none", result |-> "none", stage |-> "none", saved |-> "none",
     completion |-> "none", uploads |-> {}, failed |-> {}, changes |-> NoChanges,
     new_state |-> EmptyState, calls |-> <<>>]

\* no job has been constructed or run
RunIdle ==
    /\ stats = NewStats
    /\ run = NoRun
    /\ exit = <<>>

\* a chunker that has not been called
NoLoop == [pc |-> "idle", start |-> 0, chunk_index |-> 0, windows |-> <<>>]

\* no chunker is at work
ChunkIdle ==
    /\ doc = EmptyMap
    /\ chunks = <<>>
    /\ loop = NoLoop

\* compute_content_hash has not been called
HashIdle ==
    /\ texts = <<>>
    /\ hashes = <<>>

(***************************************************************************)
(* StateManager: actions                                                   *)
(***************************************************************************)
\* dt seconds pass, then the operation starts
Pass(dt) ==
    /\ sec' = sec + dt
    /\ now' = now + 1
    /\ before' = [canon |-> canon, backups |-> backups]

Applies(how) == (how = "copy" => Exists(canon))

Load(dt) ==
    /\ Pass(dt)
    /\ loaded' = LoadState(canon)
    /\ lastOp' = Op("load", "returned", "none", EmptyState)
    /\ UNCHANGED <<canon, tmp, backups, detectVars, runVars, chunkVars, hashVars>>

Save(state, dt, how) ==
    /\ Pass(dt)
    /\ Applies(how)
    /\ \E o \in SaveState(state, canon, tmp, backups, sec', now', how) :
          /\ canon' = o.canon
          /\ tmp' = o.tmp
          /\ backups' = o.backups
          /\ lastOp' = Op("save", o.ret, how, state)
    /\ UNCHANGED <<loaded, detectVars, runVars, chunkVars, hashVars>>

\* save_state(load_state()) with the snapshot loaded last
SaveLoaded(dt) ==
    /\ lastOp.op = "load"
    /\ Save(loaded.value, dt, "none")

Reset(dt, how) ==
    /\ Pass(dt)
    /\ how \in {"copy", "unlink"} => Exists(canon)
    /\ \E o \in ResetState(canon, tmp, backups, sec', how) :
          /\ canon' = o.canon
          /\ tmp' = o.tmp
          /\ backups' = o.backups
          /\ lastOp' = Op("reset", o.ret, how, EmptyState)
    /\ UNCHANGED <<loaded, detectVars, runVars, chunkVars, hashVars>>

Import(f, dt, how) ==
    /\ Pass(dt)
    /\ Applies(how)
    /\ how # "none" => f.kind = "object"
    /\ \E o \in ImportState(f, canon, tmp, backups, sec', now', how) :
          /\ canon' = o.canon
          /\ tmp' = o.tmp
          /\ backups' = o.backups
          /\ lastOp' = [Op("import", o.ret, how, f.data) EXCEPT !.src = f.kind]
    /\ UNCHANGED <<loaded, detectVars, runVars, chunkVars, hashVars>>

(***************************************************************************)
(* Settings, DailyScraperJob and main                                      *)
(***************************************************************************)
\* the default of CHUNK_SIZE
DefaultChunkSize == 8000

\* the default of MIN_CHUNK_SIZE
DefaultMinChunkSize == 100

\* the runs of one behaviour of SpecRun
MaxRuns == 2

\* Settings.validate: the errors it lists, for the keys of the model
Validate(s) ==
    {e \in {"OPENAI_API_KEY is required when not in dry-run mode",
            "CHUNK_SIZE must be positive",
            "MIN_CHUNK_SIZE must be positive",
            "CHUNK_SIZE must be greater than MIN_CHUNK_SIZE"} :
        \/ e = "OPENAI_API_KEY is required when not in dry-run mode"
           /\ ~s.dry_run /\ ~s.openai_api_key
        \/ e = "CHUNK_SIZE must be positive" /\ s.chunk_size <= 0
        \/ e = "MIN_CHUNK_SIZE must be positive" /\ s.min_chunk_size <= 0
        \/ e = "CHUNK_SIZE must be greater than MIN_CHUNK_SIZE"
           /\ s.chunk_size <= s.min_chunk_size}

\* the environments of a job; openai_api_key is whether the key is set
RunSettings ==
    [enable_hash_detection : {TRUE},
     enable_lastmod_detection : {TRUE},
     force_full_update : BOOLEAN,
     dry_run : BOOLEAN,
     openai_api_key : BOOLEAN,
     chunk_size : {DefaultChunkSize, DefaultMinChunkSize},
     min_chunk_size : {DefaultMinChunkSize}]

\* a document with the Last-Modified header of its page
DocW == [id |-> "w", content_hash |-> "h1", last_modified |-> BadDate, title |-> TitleA]

\* what scrape_all_articles may return; <<>> stands for an exception
Scrapes ==
    Opt({<<>>, <<DocY("h1")>>, <<DocY("h2"), DocZ>>, <<DocY("h1"), DocZ>>,
         <<DocZ, DocY("h1"), DocY("h2"), DocW>>, <<DocW>>})

\* the faults of the save_state of a run
RunFaults == {"none", "open", "replace"}

\* the entry of new_state for a document (updated_at, a value run only
\* copies, is left out)
EntryOf(article) ==
    [hash |-> article.content_hash, last_modified |-> article.last_modified,
     title |-> article.title]

\* new_state keeping an entry of the state file for an id that is gone
NewStateKeepingStale(start_time, current_articles) ==
    LET lookup == CurrentLookup(current_articles)
    IN  [EmptyState EXCEPT
            !.last_run = ToString(start_time),
            !.articles = DictArticles([id \in DOMAIN lookup \cup {"y"} |->
                                         IF id \in DOMAIN lookup
                                         THEN EntryOf(lookup[id]) ELSE EntryY])]

\* new_state of run: one entry per id of current_articles
NewState(start_time, current_articles) ==
    LET lookup == CurrentLookup(current_articles)
    IN  [EmptyState EXCEPT
            !.last_run = ToString(start_time),
            !.articles = DictArticles([id \in DOMAIN lookup |-> EntryOf(lookup[id])])]

\* [a for a in current_articles if a['id'] in ids], as indices of the list
Selected(current_articles, ids) ==
    {i \in DOMAIN current_articles : current_articles[i].id \in ids}

\* _simulate_processing
SimulateProcessing(st, ch) ==
    [stats |-> [st EXCEPT !.added = Cardinality(ch.added),
                          !.updated = Cardinality(ch.updated),
                          !.skipped = Cardinality(ch.unchanged)],
     uploads |-> {},
     calls |-> <<>>,
     success |-> TRUE]

\* the call upload_articles(articles, operation), made when ids is not empty
UploadCall(operation, current_articles, ids) ==
    IF ids = {} THEN <<>>
    ELSE <<[operation |-> operation,
            articles |-> SelectSeq(current_articles, LAMBDA a : a.id \in ids)]>>

\* _process_changes handing every scraped document to the uploader
ProcessChangesEverything(st, ch, current_articles, failed) ==
    [stats |-> [st EXCEPT !.skipped = Cardinality(ch.unchanged)],
     uploads |-> {<<"add", current_articles[i].id>> : i \in DOMAIN current_articles},
     calls |-> UploadCall("add", current_articles,
                          {current_articles[i].id : i \in DOMAIN current_articles}),
     success |-> TRUE]

\* _process_changes: upload_articles for the added and for the updated
\* documents; failed are the ids whose upload fails
ProcessChanges(st, ch, current_articles, failed) ==
    LET added_articles == Selected(current_articles, ch.added)
        updated_articles == Selected(current_articles, ch.updated)
        Good(S) == {i \in S : current_articles[i].id \notin failed}
        Bad(S) == {i \in S : current_articles[i].id \in failed}
        after == [st EXCEPT
                    !.added = IF ch.added # {}
                              THEN Cardinality(Good(added_articles)) ELSE @,
                    !.updated = IF ch.updated # {}
                                THEN Cardinality(Good(updated_articles)) ELSE @,
                    !.skipped = Cardinality(ch.unchanged),
                    !.errors = @ + Cardinality(Bad(added_articles))
                                 + Cardinality(Bad(updated_articles))]
    IN  [stats |-> after,
         uploads |-> {<<"add", id>> : id \in ch.added}
                     \cup {<<"update", id>> : id \in ch.updated},
         calls |-> UploadCall("add", current_articles, ch.added)
                   \o UploadCall("update", current_articles, ch.updated),
         success |-> after.errors = 0]

\* run handing the changes to _process_changes whatever dry_run says
ProcessAlways(s, st, ch, current_articles, failed) ==
    ProcessChanges(st, ch, current_articles, failed)

\* "Upload only what changed" in run: _process_changes with dry_run off,
\* _simulate_processing with dry_run on
Process(s, st, ch, current_articles, failed) ==
    IF s.dry_run THEN SimulateProcessing(st, ch)
    ELSE ProcessChanges(st, ch, current_articles, failed)

\* the except clause of run: the error is counted and recorded, the job is
\* recorded as failed and run returns False
Except(o) ==
    [o EXCEPT !.result = "False", !.completion = "False",
              !.stats = [@ EXCEPT !.errors = @ + 1]]

\* the finally clause of run sets stats['end_time']
Finally(o) == [o EXCEPT !.stats = [@ EXCEPT !.end_time = TRUE]]

\* the end of run after save_state: _log_final_stats reads
\* stats['end_time'].isoformat(), which raises while end_time is None; ret is
\* what save_state returned, which run does not look at
RunEnd(o, ret) ==
    IF o.stats.end_time
    THEN [o EXCEPT !.result = "True", !.completion = "True", !.stage = "done"]
    ELSE Except([o EXCEPT !.stage = "log_final_stats"])

\* DailyScraperJob.run on a job whose stats are st: the outcomes it may have.
\* scraped is what the scraper gives, failed the ids whose upload fails, how
\* the fault of save_state, order the iteration order of the common ids,
\* reads the wall clock where _parse_date may read it
JobRun(st, s, c, t0, b, secv, t, reads, scraped, failed, how, order) ==
    LET previous_articles == LoadState(c).value.articles.items
        start == [result |-> "False", stage |-> "scrape", stats |-> st,
                  canon |-> c, tmp |-> t0, backups |-> b, saved |-> "none",
                  completion |-> "none", uploads |-> {}, failed |-> {},
                  changes |-> NoChanges, new_state |-> EmptyState, calls |-> <<>>]
    IN  IF scraped = <<>> THEN {Finally(Except(start))}
        ELSE
        LET current_articles == scraped[1]
            ch == DetectChanges(s, previous_articles, current_articles, order, reads)
            detected == [start EXCEPT !.stage = "detect", !.changes = ch]
        IN  IF ch.raised THEN {Finally(Except(detected))}
            ELSE
            LET p == Process(s, st, ch, current_articles, failed)
                processed == [detected EXCEPT
                                 !.stage = "process_changes",
                                 !.stats = p.stats,
                                 !.uploads = p.uploads,
                                 !.calls = p.calls,
                                 !.failed = {u \in p.uploads : u[2] \in failed}]
            IN  IF ~p.success THEN {Finally(processed)}
                ELSE
                LET new_state == NewState(t, current_articles)
                    saves == IF s.dry_run
                             THEN {[canon |-> c, tmp |-> t0, backups |-> b,
                                    ret |-> "none"]}
                             ELSE SaveState(new_state, c, t0, b, secv, t, how)
                IN  {Finally(RunEnd([processed EXCEPT
                                        !.canon = sv.canon,
                                        !.tmp = sv.tmp,
                                        !.backups = sv.backups,
                                        !.saved = sv.ret,
                                        !.new_state = new_state], sv.ret)) :
                        sv \in saves}

\* one call of run on a job whose stats are st, dt seconds after the
\* operation before it
Runs(st, via, dt) ==
    /\ run.n < MaxRuns
    /\ Pass(dt)
    /\ \E scraped \in Scrapes, how \in RunFaults :
       LET previous_articles == LoadState(canon).value.articles.items
           current_articles == IF scraped = <<>> THEN <<>> ELSE scraped[1]
           common == CommonIds(DOMAIN previous_articles,
                               DOMAIN CurrentLookup(current_articles))
       IN  \E order \in Orders(common), failed \in SUBSET {"y", "z"} :
           \E reads \in ClockReads(2 * Cardinality(common), clock) :
           \E o \in JobRun(st, settings, canon, tmp, backups, sec', now', reads,
                           scraped, failed, how, order) :
              /\ clock' = IF common = {} THEN clock
                          ELSE reads[2 * Cardinality(common)]
              /\ how # "none" => o.saved # "none"
              /\ failed \subseteq {u[2] : u \in o.uploads}
              /\ canon' = o.canon
              /\ tmp' = o.tmp
              /\ backups' = o.backups
              /\ stats' = o.stats
              /\ run' = [n |-> run.n + 1, via |-> via, result |-> o.result,
                         stage |-> o.stage, saved |-> o.saved,
                         completion |-> o.completion, uploads |-> o.uploads,
                         failed |-> o.failed, changes |-> o.changes,
                         new_state |-> o.new_state, calls |-> o.calls]
              /\ loaded' = LoadState(canon)
              /\ lastOp' = IF o.saved = "none"
                           THEN Op("load", "returned", "none", EmptyState)
                           ELSE Op("save", o.saved, how, o.new_state)
              /\ previous' = previous_articles
              /\ current' = current_articles
              /\ changes' = IF o.stage = "scrape" THEN changes
                            ELSE Append(changes, o.changes)
              /\ exit' = IF via = "main"
                         THEN (IF o.result = "True" THEN <<0>> ELSE <<1>>)
                         ELSE exit
    /\ UNCHANGED <<settings, chunkVars, hashVars>>

\* main(): Settings(), the check of the API key, a new DailyScraperJob, run,
\* sys.exit
Main(dt) ==
    IF ~settings.openai_api_key /\ ~settings.dry_run
    THEN /\ exit' = <<1>>
         /\ UNCHANGED <<detectVars, storeVars, stats, run, chunkVars, hashVars>>
    ELSE Runs(NewStats, "main", dt)

\* run called once more on the job that exists
RunAgain(dt) ==
    /\ run.n > 0
    /\ Runs(stats, "run", dt)

(***************************************************************************)
(* SpecStore                                                               *)
(***************************************************************************)
InitStore ==
    /\ DetectIdle
    /\ RunIdle
    /\ ChunkIdle
    /\ HashIdle
    /\ canon \in DiskFiles
    /\ tmp = AbsentFile
    /\ backups = EmptyMap
    /\ sec = 0
    /\ now = 0
    /\ loaded = LoadState(AbsentFile)
    /\ lastOp = NoOp
    /\ before = [canon |-> canon, backups |-> backups]

StoreLoad == now < MaxStoreOps /\ \E dt \in {0, 1} : Load(dt)

StoreSave ==
    /\ now < MaxStoreOps
    /\ \E dt \in {0, 1}, state \in SaveInputs, how \in Faults \cup Kills :
          Save(state, dt, how)

StoreSaveLoaded == now < MaxStoreOps /\ \E dt \in {0, 1} : SaveLoaded(dt)

StoreReset ==
    /\ now < MaxStoreOps
    /\ \E dt \in {0, 1}, how \in {"none", "copy", "unlink"} : Reset(dt, how)

StoreImport ==
    /\ now < MaxStoreOps
    /\ \E dt \in {0, 1}, f \in DiskFiles, how \in Faults \cup Kills :
          Import(f, dt, how)

NextStore == StoreLoad \/ StoreSave \/ StoreSaveLoaded \/ StoreReset \/ StoreImport

SpecStore == InitStore /\ [][NextStore]_vars

(***************************************************************************)
(* SpecBackups                                                             *)
(***************************************************************************)
InitBackups == DetectIdle /\ StoreIdle /\ RunIdle /\ ChunkIdle /\ HashIdle

\* the operations so far that fell into the second of the one before them
SameSecond == now - sec

\* the seconds an operation of SpecBackups may start after the one before it
Gaps == {dt \in {0, 1} : dt = 0 => (now < MaxBackupOps /\ SameSecond < MaxSameSecond)}

BackupsSave ==
    /\ now < MaxBackupOps
    /\ \E dt \in Gaps : Save(State1, dt, "none")

BackupsReset ==
    /\ now < MaxBackupOps
    /\ \E dt \in Gaps : Reset(dt, "none")

BackupsImport ==
    /\ now < MaxBackupOps
    /\ \E dt \in Gaps :
          Import(File("object", StateWithMeta(State1, 0), 0), dt, "none")

NextBackups == BackupsSave \/ BackupsReset \/ BackupsImport

SpecBackups == InitBackups /\ [][NextBackups]_vars

(***************************************************************************)
(* SpecDetect                                                              *)
(***************************************************************************)
InitDetect ==
    /\ settings \in SettingsSet
    /\ \E ctx \in Contexts, xe \in Opt(XEntries), xd \in Opt(XDocs) :
          /\ previous = WithX(ctx.prev, xe)
          /\ current = ctx.cur \o xd
    /\ clock = ClockStart
    /\ changes = <<>>
    /\ StoreIdle
    /\ RunIdle
    /\ ChunkIdle
    /\ HashIdle

\* one call of detect_changes(previous, current)
Detect ==
    /\ Len(changes) < 2
    /\ LET common == CommonIds(DOMAIN previous, DOMAIN CurrentLookup(current))
       IN  \E order \in Orders(common) :
           \E reads \in ClockReads(2 * Cardinality(common), clock) :
              /\ changes' = Append(changes,
                                   DetectChanges(settings, previous, current, order, reads))
              /\ clock' = IF common = {} THEN clock ELSE reads[2 * Cardinality(common)]
    /\ UNCHANGED <<settings, previous, current, storeVars, runVars, chunkVars, hashVars>>

NextDetect == Detect

SpecDetect == InitDetect /\ [][NextDetect]_vars

(***************************************************************************)
(* SpecRun                                                                 *)
(***************************************************************************)
InitRun ==
    /\ settings \in RunSettings
    /\ previous = EmptyMap
    /\ current = <<>>
    /\ clock = ClockStart
    /\ changes = <<>>
    /\ canon \in {AbsentFile, File("object", StateWithMeta(State1, 0), 0)}
    /\ tmp = AbsentFile
    /\ backups = EmptyMap
    /\ sec = 0
    /\ now = 0
    /\ loaded = LoadState(AbsentFile)
    /\ lastOp = NoOp
    /\ before = [canon |-> canon, backups |-> backups]
    /\ RunIdle
    /\ ChunkIdle
    /\ HashIdle

RunMain == \E dt \in {1} : Main(dt)

RunRunAgain == \E dt \in {1} : RunAgain(dt)

NextRun == RunMain \/ RunRunAgain

SpecRun == InitRun /\ [][NextRun]_vars

(***************************************************************************)
(* VectorStoreUploader._create_chunks                                      *)
(***************************************************************************)
\* overlap = 200
Overlap == 200

\* the characters by which the longest body of the model exceeds chunk_size
LongTail == 1000

\* the length of a run of whitespace at an end of a body
PadLen == 10

Max(a, b) == IF a > b THEN a ELSE b

\* the index i of a slice of a string of n characters, as Python reads it
SliceIndex(i, n) == IF i < 0 THEN Max(i + n, 0) ELSE Min(i, n)

\* content.rfind('.', lo, hi); content is the length of the text, the
\* positions of its full stops and its maximal runs of whitespace <<from, to>>
RFindDot(content, lo, hi) ==
    LET a == SliceIndex(lo, content.len)
        b == SliceIndex(hi, content.len)
        found == {d \in content.dots : a <= d /\ d < b}
    IN  IF found = {} THEN -1
        ELSE CHOOSE d \in found : \A e \in found : e <= d

\* len(content[start:end].strip())
StripLen(content, start, end) ==
    LET a == SliceIndex(start, content.len)
        b == SliceIndex(end, content.len)
        lead == {r \in content.ws : r[1] <= a /\ a < r[2]}
        a1 == IF lead = {} THEN a ELSE Min((CHOOSE r \in lead : TRUE)[2], b)
        trail == {r \in content.ws : r[1] < b /\ b <= r[2]}
        b1 == IF trail = {} THEN b ELSE Max((CHOOSE r \in trail : TRUE)[1], a1)
    IN  Max(b1 - a1, 0)

\* end of the window that starts at start: start + chunk_size, moved back
\* to just after the last full stop of its last 200 characters
WindowEnd(content, start, chunk_size) ==
    LET end == start + chunk_size
        sentence_end == RFindDot(content, end - Overlap, end)
    IN  IF end < content.len /\ sentence_end > start THEN sentence_end + 1 ELSE end

\* the start of the next window, without the overlap
NextStartPastEnd(start, end) == end + 1

\* the start of the next window, without the max with start + 1
NextStartOverlapOnly(start, end) == end - Overlap

\* start = max(end - overlap, start + 1)
NextStart(start, end) == Max(end - Overlap, start + 1)

\* chunk_index after a window, counting the dropped windows too
NextIndexCountingAll(chunk_index, kept) == chunk_index + 1

\* chunk_index after a window: it moves on only when a chunk was appended
NextIndex(chunk_index, kept) == IF kept THEN chunk_index + 1 ELSE chunk_index

\* a chunk: its metadata chunk_index and total_chunks, the window it was cut
\* from and the length of its content
Chunk(chunk_index, total_chunks, start, end, size) ==
    [chunk_index |-> chunk_index, total_chunks |-> total_chunks,
     start |-> start, end |-> end, size |-> size]

\* the settings of the chunker: those with chunk_size > min_chunk_size
ChunkSettings ==
    {cs \in [chunk_size : {DefaultChunkSize, Overlap + 100, Overlap - 50},
             min_chunk_size : {DefaultMinChunkSize, Overlap + 50}] :
        cs.chunk_size > cs.min_chunk_size}

\* the bodies given to the chunker under a chunk_size
Bodies(chunk_size) ==
    {c \in [len : {0, chunk_size, chunk_size + 1, chunk_size + Overlap + 1}
                  \cup (IF chunk_size > Overlap THEN {chunk_size + LongTail} ELSE {}),
            dots : {D \in SUBSET {1, chunk_size - Overlap, chunk_size - 100,
                                  chunk_size - 1, chunk_size + 50} :
                       Cardinality(D) <= 2},
            ws : {{}, {<<0, PadLen>>}, {<<chunk_size - 5, chunk_size + 5>>}}
                 \cup {{<<chunk_size + 1 - PadLen, chunk_size + 1>>},
                       {<<chunk_size - Overlap - 50, chunk_size + LongTail>>},
                       {<<1, chunk_size + Overlap>>}}] :
        /\ \A d \in c.dots : 0 <= d /\ d < c.len
        /\ \A r \in c.ws : 0 <= r[1] /\ r[1] < r[2] /\ r[2] <= c.len
        /\ \A d \in c.dots, r \in c.ws : d < r[1] \/ r[2] <= d}

\* len(content) <= chunk_size: the whole content is the one chunk
CreateChunksSingle ==
    /\ loop.pc = "idle"
    /\ doc.len <= settings.chunk_size
    /\ chunks' = <<Chunk(0, 1, 0, doc.len, doc.len)>>
    /\ loop' = [loop EXCEPT !.pc = "done",
                            !.windows = <<[start |-> 0, end |-> doc.len, kept |-> TRUE]>>]
    /\ UNCHANGED <<doc, detectVars, storeVars, runVars, hashVars>>

\* the loop is entered with start = 0 and chunk_index = 0
CreateChunksEnter ==
    /\ loop.pc = "idle"
    /\ doc.len > settings.chunk_size
    /\ loop' = [loop EXCEPT !.pc = "loop"]
    /\ UNCHANGED <<doc, chunks, detectVars, storeVars, runVars, hashVars>>

\* one turn of the while loop
CreateChunksWindow ==
    /\ loop.pc = "loop"
    /\ loop.start < doc.len
    /\ LET end == WindowEnd(doc, loop.start, settings.chunk_size)
           size == StripLen(doc, loop.start, end)
           kept == size >= settings.min_chunk_size
       IN  /\ chunks' = IF kept
                        THEN Append(chunks, Chunk(loop.chunk_index, 0, loop.start, end, size))
                        ELSE chunks
           /\ loop' = [loop EXCEPT
                          !.start = NextStart(loop.start, end),
                          !.chunk_index = NextIndex(loop.chunk_index, kept),
                          !.windows = Append(@, [start |-> loop.start, end |-> end,
                                                 kept |-> kept])]
    /\ UNCHANGED <<doc, detectVars, storeVars, runVars, hashVars>>

\* the loop is left, total_chunks is set in every chunk and the list returned
CreateChunksReturn ==
    /\ loop.pc = "loop"
    /\ loop.start >= doc.len
    /\ chunks' = [i \in DOMAIN chunks |-> [chunks[i] EXCEPT !.total_chunks = Len(chunks)]]
    /\ loop' = [loop EXCEPT !.pc = "done"]
    /\ UNCHANGED <<doc, detectVars, storeVars, runVars, hashVars>>

InitChunks ==
    /\ settings \in ChunkSettings
    /\ previous = EmptyMap
    /\ current = <<>>
    /\ clock = ClockStart
    /\ changes = <<>>
    /\ StoreIdle
    /\ RunIdle
    /\ doc \in Bodies(settings.chunk_size)
    /\ chunks = <<>>
    /\ loop = NoLoop
    /\ HashIdle

NextChunks ==
    CreateChunksSingle \/ CreateChunksEnter \/ CreateChunksWindow \/ CreateChunksReturn

SpecChunks == InitChunks /\ [][NextChunks]_vars

\* _create_chunks runs on: a call that can take a step takes one
SpecChunksFair == SpecChunks /\ WF_vars(NextChunks)

(***************************************************************************)
(* MarkdownChunker (optibot-assistant)                                     *)
(***************************************************************************)
MAX_CHUNK_SIZE == 8000

MIN_CHUNK_SIZE == 100

\* the "## " sections a document of the model may have
MaxSections == 1

\* the "### " subsections a section of the model may have
MaxSubs == 2

\* the characters a "### " header adds to a section: "\n### ", a title of
\* one character and the end of its line
SubHeaderLen == 7

\* the lengths of a stripped piece of text: none, under the minimum, the
\* minimum, over the maximum
PieceSizes == {0, MIN_CHUNK_SIZE - 1, MIN_CHUNK_SIZE, MAX_CHUNK_SIZE + 1}

SeqsUpTo(S, n) == UNION {[1..k -> S] : k \in 0..n}

\* a "## " section: the length of its title line, of the text before its
\* first "### " header (stripped) and of the body of each subsection
\* (stripped)
MdSections == [title : {0, 1}, first : PieceSizes, subs : SeqsUpTo(PieceSizes, MaxSubs)]

RECURSIVE SumSubs(_)
SumSubs(subs) ==
    IF subs = <<>> THEN 0 ELSE SubHeaderLen + Head(subs) + SumSubs(Tail(subs))

\* len(section_content): the text of a section below its title line
SectionContentLen(section) == section.first + SumSubs(section.subs)

\* not section.strip()
BlankSection(section) == section.title = 0 /\ SectionContentLen(section) = 0

\* a section record of split_by_headers; size is the length the code
\* compares with MIN_CHUNK_SIZE / MAX_CHUNK_SIZE for it
Section(level, size) == [level |-> level, size |-> size]

RECURSIVE SubParts(_)
\* the loop over parts[1:] of _split_large_section
SubParts(subs) ==
    IF subs = <<>> THEN <<>>
    ELSE (IF Head(subs) >= MIN_CHUNK_SIZE THEN <<Section(3, Head(subs))>> ELSE <<>>)
         \o SubParts(Tail(subs))

\* _split_large_section
SplitLargeSection(section) ==
    (IF section.first > 0 /\ section.first >= MIN_CHUNK_SIZE
     THEN <<Section(2, section.first)>> ELSE <<>>)
    \o SubParts(section.subs)

RECURSIVE MainSections(_)
\* the loop over main_sections[1:] of split_by_headers
MainSections(secs) ==
    IF secs = <<>> THEN <<>>
    ELSE LET section == Head(secs)
             here == IF BlankSection(section) THEN <<>>
                     ELSE IF SectionContentLen(section) > MAX_CHUNK_SIZE
                          THEN SplitLargeSection(section)
                          ELSE <<Section(2, SectionContentLen(section))>>
         IN  here \o MainSections(Tail(secs))

\* split_by_headers
SplitByHeaders(body) ==
    (IF body.intro > 0 /\ body.intro >= MIN_CHUNK_SIZE
     THEN <<Section(1, body.intro)>> ELSE <<>>)
    \o MainSections(body.sections)

\* a metadata dict; title is <<>> when the dict has no key 'title'
Dict(title) == [type |-> "dict", title |-> title]

\* a value that is no dict: a str, a list
NotADict(type) == [type |-> type, title |-> <<>>]

\* a file without a leading "---" block
NoFront == [yaml |-> "absent", title_line |-> FALSE]

\* what lies between the front-matter delimiters: yaml is what the text is
\* as YAML (a mapping, a plain scalar, a sequence, null, or invalid),
\* title_line whether one of its lines reads "title: T"
FrontMatters ==
    {NoFront}
    \cup [yaml : {"mapping", "invalid"}, title_line : BOOLEAN]
    \cup [yaml : {"scalar", "sequence", "null"}, title_line : {FALSE}]

\* yaml.safe_load(front_matter_text): YAMLError for invalid YAML, else the
\* value the text denotes (None is <<>>)
YamlSafeLoad(front) ==
    CASE front.yaml = "invalid" -> [raised |-> TRUE, value |-> <<>>]
      [] front.yaml = "mapping" ->
            [raised |-> FALSE,
             value |-> <<Dict(IF front.title_line THEN <<"T">> ELSE <<>>)>>]
      [] front.yaml = "scalar" -> [raised |-> FALSE, value |-> <<NotADict("str")>>]
      [] front.yaml = "sequence" -> [raised |-> FALSE, value |-> <<NotADict("list")>>]
      [] front.yaml = "null" -> [raised |-> FALSE, value |-> <<>>]

\* _parse_front_matter_manual: the key: value lines of the text
ParseFrontMatterManual(front) == Dict(IF front.title_line THEN <<"T">> ELSE <<>>)

\* parse_front_matter: the metadata it returns
ParseFrontMatter(front) ==
    IF front.yaml = "absent" THEN Dict(<<>>)
    ELSE LET loaded_yaml == YamlSafeLoad(front)
         IN  IF loaded_yaml.raised THEN ParseFrontMatterManual(front)
             ELSE IF loaded_yaml.value = <<>> THEN Dict(<<>>)
             ELSE loaded_yaml.value[1]

\* create_chunk_with_context: the chunk of a section; article is the
\* "Article:" line of its context header
CreateChunkWithContext(section, metadata) ==
    [level |-> section.level, size |-> section.size,
     article |-> IF metadata.title = <<>> THEN "Unknown Title" ELSE metadata.title[1]]

\* chunk_file: one chunk per section, in order; metadata.get raises
\* AttributeError when metadata is no dict
ChunkFile(document) ==
    LET metadata == ParseFrontMatter(document.front)
        sections == SplitByHeaders(document)
    IN  IF sections # <<>> /\ metadata.type # "dict"
        THEN [raised |-> TRUE, chunks |-> <<>>]
        ELSE [raised |-> FALSE,
              chunks |-> [i \in DOMAIN sections |->
                            CreateChunkWithContext(sections[i], metadata)]]

\* the documents of the model: every body under a front matter that is a
\* mapping, and the bodies without "## " section under every front matter
MdDocs ==
    [intro : PieceSizes, sections : SeqsUpTo(MdSections, MaxSections),
     front : {[yaml |-> "mapping", title_line |-> TRUE]}]
    \cup [intro : PieceSizes, sections : {<<>>}, front : FrontMatters]

\* chunk_file(file_path, content) is called
MdChunkFile ==
    /\ loop.pc = "idle"
    /\ LET r == ChunkFile(doc)
       IN  /\ chunks' = r.chunks
           /\ loop' = [loop EXCEPT !.pc = IF r.raised THEN "raised" ELSE "done"]
    /\ UNCHANGED <<doc, detectVars, storeVars, runVars, hashVars>>

InitMarkdown ==
    /\ DetectIdle
    /\ StoreIdle
    /\ RunIdle
    /\ doc \in MdDocs
    /\ chunks = <<>>
    /\ loop = NoLoop
    /\ HashIdle

NextMarkdown == MdChunkFile

SpecMarkdown == InitMarkdown /\ [][NextMarkdown]_vars

(***************************************************************************)
(* DeltaDetector.compute_content_hash                                      *)
(***************************************************************************)
CR == "\r"

LF == "\n"

\* the characters str.strip() removes, among those of the model
Whitespace == {" ", CR, LF}

\* the characters or line breaks of the longest text of the model
MaxTextLen == 3

RECURSIVE LStripWs(_)
LStripWs(t) == IF t # <<>> /\ Head(t) \in Whitespace THEN LStripWs(Tail(t)) ELSE t

RECURSIVE RStripWs(_)
RStripWs(t) ==
    IF t # <<>> /\ t[Len(t)] \in Whitespace
    THEN RStripWs(SubSeq(t, 1, Len(t) - 1)) ELSE t

\* content.strip()
StripWs(t) == RStripWs(LStripWs(t))

RECURSIVE ReplaceCRLF(_)
\* .replace('\r\n', '\n')
ReplaceCRLF(t) ==
    IF t = <<>> THEN <<>>
    ELSE IF Len(t) >= 2 /\ t[1] = CR /\ t[2] = LF
         THEN <<LF>> \o ReplaceCRLF(SubSeq(t, 3, Len(t)))
         ELSE <<Head(t)>> \o ReplaceCRLF(Tail(t))

\* the text with its lone carriage returns left in
KeepCR(t) == t

\* .replace('\r', '\n')
ReplaceCR(t) == [i \in DOMAIN t |-> IF t[i] = CR THEN LF ELSE t[i]]

\* normalized_content
Normalize(content) == ReplaceCR(ReplaceCRLF(StripWs(content)))

\* hashlib.sha256(...).hexdigest(): two texts have one digest only when
\* they are the same text
Sha256(t) == <<"sha256", t>>

\* compute_content_hash
ComputeContentHash(content) == Sha256(Normalize(content))

\* a text before its line breaks are written out: characters and breaks
Break == "<br>"

Drafts == UNION {[1..n -> {"a", " ", Break}] : n \in 0..MaxTextLen}

LineEndings == {<<LF>>, <<CR>>, <<CR, LF>>}

RECURSIVE Render(_, _)
\* the draft with every line break written as ending
Render(draft, ending) ==
    IF draft = <<>> THEN <<>>
    ELSE (IF Head(draft) = Break THEN ending ELSE <<Head(draft)>>)
         \o Render(Tail(draft), ending)

\* whitespace put before or after a text
Paddings == {<<>>, <<" ">>, <<LF>>, <<CR, LF>>}

\* two texts that differ in line-ending style and in leading and trailing
\* whitespace only
Variants ==
    {<<Render(d, e1), lead \o Render(d, e2) \o trail>> :
        d \in Drafts, e1 \in LineEndings, e2 \in LineEndings,
        lead \in Paddings, trail \in Paddings}

\* every text of MaxTextLen characters or fewer
RawTexts == UNION {[1..n -> {"a", " ", CR, LF}] : n \in 0..MaxTextLen}

\* compute_content_hash is called on the first text, the second text, and
\* on what it hashed for each of them
HashInputs == <<texts[1], texts[2], Normalize(texts[1]), Normalize(texts[2])>>

ComputeHash ==
    /\ texts # <<>>
    /\ Len(hashes) < Len(HashInputs)
    /\ hashes' = Append(hashes, ComputeContentHash(HashInputs[Len(hashes) + 1]))
    /\ UNCHANGED <<texts, detectVars, storeVars, runVars, chunkVars>>

InitHash ==
    /\ DetectIdle
    /\ StoreIdle
    /\ RunIdle
    /\ ChunkIdle
    /\ texts \in Variants \cup {<<t, t>> : t \in RawTexts}
    /\ hashes = <<>>

NextHash == ComputeHash

SpecHash == InitHash /\ [][NextHash]_vars

(***************************************************************************)
(* Properties of detect_changes                                            *)
(***************************************************************************)
CurrentIdSet == {current[i].id : i \in DOMAIN current}

PreviousIdSet == DOMAIN previous

\* the document detect_changes sees for an id of the current list
DocOf(id) == current[CHOOSE i \in DOMAIN current :
                        current[i].id = id
                        /\ \A j \in DOMAIN current : current[j].id = id => j <= i]

\* the calls that returned a ChangeSet
Returned == {k \in DOMAIN changes : ~changes[k].raised}

\* C1: every ChangeSet detect_changes returns has added = current - previous,
\* removed = previous - current, added/updated/unchanged pairwise disjoint
\* with union the current ids; with an empty previous map all current ids
\* are added and the other three sets are empty.
C1_PartitionLaw ==
    \A k \in Returned :
        LET r == changes[k]
        IN  /\ r.added = CurrentIdSet \ PreviousIdSet
            /\ r.removed = PreviousIdSet \ CurrentIdSet
            /\ r.added \cap r.updated = {}
            /\ r.added \cap r.unchanged = {}
            /\ r.updated \cap r.unchanged = {}
            /\ r.added \cup r.updated \cup r.unchanged = CurrentIdSet
            /\ PreviousIdSet = {} =>
                  /\ r.added = CurrentIdSet
                  /\ r.updated = {} /\ r.unchanged = {} /\ r.removed = {}

\* a call that returned added, updated and removed ids at once
C1_Witness ==
    /\ Returned # {}
    /\ \E k \in Returned :
          changes[k].added # {} /\ changes[k].updated # {} /\ changes[k].removed # {}

\* C3 (as claimed): two calls of detect_changes on the same inputs and
\* settings give the same outcome.
C3_SameInputsSameChanges == Len(changes) = 2 => changes[1] = changes[2]

\* the fingerprint signal flags id
HashFlags(id) ==
    LET p == previous[id].hash
        c == DocOf(id).content_hash
    IN  \/ ~Truthy(p) /\ Truthy(c)
        \/ Truthy(p) /\ Truthy(c) /\ p # c

\* C4: with hash detection on and force off, a common id whose previous entry
\* has no fingerprint while the document has one, or whose fingerprints are
\* both present and unequal, is classified updated whatever its last-modified
\* and title values are (its own classification never raises).
C4_HashDecides ==
    (settings.enable_hash_detection /\ ~settings.force_full_update) =>
        \A k \in DOMAIN changes :
            \A id \in CurrentIdSet \cap PreviousIdSet :
                HashFlags(id) =>
                    /\ k \in Returned => id \in changes[k].updated
                    /\ k \notin Returned =>
                          \E other \in (CurrentIdSet \cap PreviousIdSet) \ {id} :
                              NoneT \in {previous[other].title, DocOf(other).title}

\* x has no previous fingerprint, the same title, and was classified updated
C4_Witness ==
    /\ settings.enable_hash_detection /\ ~settings.force_full_update
    /\ "x" \in CurrentIdSet \cap PreviousIdSet
    /\ previous["x"].hash = None /\ DocOf("x").content_hash = "h1"
    /\ previous["x"].title = DocOf("x").title
    /\ Returned # {} /\ \A k \in Returned : "x" \in changes[k].updated

\* C5 (as claimed): with force off, a common id with equal fingerprints,
\* identical last_modified values (parseable or not) and titles equal after
\* trimming is classified unchanged, under every setting of the two toggles.
C5_NoSignalUnchanged ==
    ~settings.force_full_update =>
        \A k \in Returned :
            \A id \in CurrentIdSet \cap PreviousIdSet :
                (/\ previous[id].hash = DocOf(id).content_hash
                 /\ previous[id].last_modified = DocOf(id).last_modified
                 /\ previous[id].title # NoneT /\ DocOf(id).title # NoneT
                 /\ Strip(previous[id].title) = Strip(DocOf(id).title))
                => id \in changes[k].unchanged

\* C6: with force_full_update set, every call returns, with every common id
\* in updated, unchanged empty, and added and removed as without the flag.
C6_ForceFullUpdate ==
    settings.force_full_update =>
        \A k \in DOMAIN changes :
            /\ ~changes[k].raised
            /\ changes[k].updated = CurrentIdSet \cap PreviousIdSet
            /\ changes[k].unchanged = {}
            /\ changes[k].added = CurrentIdSet \ PreviousIdSet
            /\ changes[k].removed = PreviousIdSet \ CurrentIdSet

\* force is set, x has the same fingerprint and title as before (or a null
\* title) and is classified updated all the same
C6_Witness ==
    /\ settings.force_full_update
    /\ Len(changes) = 2
    /\ "x" \in CurrentIdSet \cap PreviousIdSet
    /\ previous["x"].hash = "h1" /\ DocOf("x").content_hash = "h1"
    /\ previous["x"].last_modified = DocOf("x").last_modified
    /\ previous["x"].title = DocOf("x").title
    /\ "x" \in changes[1].updated /\ "x" \in changes[2].updated

\* the last_modified strings _parse_date parses
Parseable == {Day1Z, Day4Offset, Day1Naive}

\* the day a parseable last_modified names
DayOf(date_str) == IF date_str = Day4Offset THEN 4 ELSE 1

\* neither title is null and the titles are equal after trimming
TitlesEqual(id) ==
    /\ previous[id].title # NoneT /\ DocOf(id).title # NoneT
    /\ Strip(previous[id].title) = Strip(DocOf(id).title)

\* the fingerprint signal is looked at and flags id
HashDecides(id) == settings.enable_hash_detection /\ HashFlags(id)

\* C24 (as claimed): with force off, the fingerprint signal not flagging and
\* titles equal, a common id whose two timestamps are parseable is updated
\* exactly when last-modified detection is on and the current timestamp is
\* later than the previous one, and is unchanged otherwise.
C24_NewerTimestampUpdated ==
    ~settings.force_full_update =>
        \A k \in Returned :
            \A id \in CurrentIdSet \cap PreviousIdSet :
                (/\ ~HashDecides(id)
                 /\ TitlesEqual(id)
                 /\ previous[id].last_modified \in Parseable
                 /\ DocOf(id).last_modified \in Parseable)
                => /\ id \in changes[k].updated
                      <=> (/\ settings.enable_lastmod_detection
                           /\ DayOf(DocOf(id).last_modified)
                              > DayOf(previous[id].last_modified))
                   /\ id \in changes[k].updated \cup changes[k].unchanged

\* C25 (as claimed): every call of detect_changes returns a ChangeSet that
\* classifies all current ids, whatever hash, title or last_modified values
\* (null, missing or unparsable) the entries and documents carry.
C25_MalformedEntryTolerated ==
    \A k \in DOMAIN changes :
        /\ ~changes[k].raised
        /\ changes[k].added \cup changes[k].updated \cup changes[k].unchanged
           = CurrentIdSet

(***************************************************************************)
(* Properties of StateManager                                              *)
(***************************************************************************)
\* C2: the state file never holds a partially written snapshot, and a
\* save_state interrupted between the start of the temporary-file write and
\* the replace leaves the state file as it was, so that load_state returns
\* what it returned before.
C2_CrashSafe ==
    /\ canon.kind # "partial"
    /\ (/\ lastOp.op \in {"save", "import"}
        /\ lastOp.ret = "killed"
        /\ lastOp.how \in {"kill_writing", "kill_before_replace"})
       => /\ canon = before.canon
          /\ LoadState(canon) = LoadState(before.canon)

\* a save killed in the middle of the write, over a committed snapshot
C2_Witness ==
    /\ lastOp.op = "save" /\ lastOp.how = "kill_writing"
    /\ tmp.kind = "partial"
    /\ before.canon.kind = "object" /\ Sized(before.canon.data.articles)
    /\ canon = before.canon
    /\ LoadState(canon).value = before.canon.data

\* C7 (as claimed): load_state never raises; it returns the empty snapshot
\* when the state file is absent, unreadable, not JSON or not a JSON object,
\* and the stored snapshot otherwise.
C7_LoadState ==
    lastOp.op = "load" =>
        /\ ~loaded.raised
        /\ loaded.type = "dict"
        /\ loaded.value = IF canon.kind = "object" THEN canon.data ELSE EmptyState

\* the backup directory after the copy of the last operation, before cleanup
AfterCopy ==
    IF Exists(before.canon) /\ lastOp.how # "copy"
    THEN [n \in DOMAIN before.backups \cup {BackupName(sec)} |->
             IF n = BackupName(sec) THEN before.canon ELSE before.backups[n]]
    ELSE before.backups

\* the files the last operation pruned
Pruned == DOMAIN AfterCopy \ DOMAIN backups

C9_OwnBackupPerSave ==
    (/\ lastOp.op \in {"save", "import"}
     /\ lastOp.how = "none"
     /\ Exists(before.canon)
     /\ canon # before.canon)
    => \E n \in DOMAIN backups \ DOMAIN before.backups : backups[n] = before.canon

\* C10: after save_state(S) returned True, load_state returns a snapshot with
\* the last_run and the articles of S.
C10_SaveThenLoad ==
    (lastOp.op = "save" /\ lastOp.ret = "True") =>
        LET l == LoadState(canon)
        IN  /\ ~l.raised
            /\ l.type = "dict"
            /\ l.value.last_run = lastOp.arg.last_run
            /\ l.value.articles = lastOp.arg.articles

\* the two-article snapshot was saved over an earlier one
C10_Witness ==
    /\ lastOp.op = "save" /\ lastOp.ret = "True"
    /\ lastOp.arg = State2
    /\ Exists(before.canon)
    /\ DOMAIN LoadState(canon).value.articles.items = {"x", "y"}
    /\ LoadState(canon).value.articles.items["x"] = EntryX

\* the last operation saved a snapshot whose last_run and articles are the
\* ones the state file held already
Resave ==
    /\ lastOp.op = "save" /\ lastOp.ret = "True"
    /\ before.canon.kind = "object"
    /\ lastOp.arg.last_run = before.canon.data.last_run
    /\ lastOp.arg.articles = before.canon.data.articles

\* C11 (as claimed): saving again a snapshot whose content is the saved one
\* leaves the parsed contents of the state file unchanged.
C11_ResaveUnchanged == Resave => canon.data = before.canon.data

\* C11 (amended): saving again a snapshot whose content is the saved one
\* changes nothing in the parsed contents of the state file but saved_at,
\* which becomes the time of the new save.
C11_ResaveKeepsContent ==
    Resave => /\ canon.kind = "object"
              /\ canon.data = [before.canon.data EXCEPT !.saved_at = <<now>>]

\* save_state(load_state()) over the file that was loaded
C11_Witness ==
    /\ Resave
    /\ lastOp.arg = before.canon.data
    /\ canon.data.articles = before.canon.data.articles
    /\ canon.data.saved_at # before.canon.data.saved_at

\* C12 (as claimed): when the state file exists, after reset_state returned
\* True the file is absent, load_state returns the empty snapshot and a backup
\* holds the former content; when the file is absent reset_state returns True
\* and changes nothing.
C12_ResetBacksUp ==
    lastOp.op = "reset" =>
        IF Exists(before.canon)
        THEN lastOp.ret = "True" =>
                /\ ~Exists(canon)
                /\ LoadState(canon).value = EmptyState
                /\ \E n \in DOMAIN backups : backups[n] = before.canon
        ELSE /\ lastOp.ret = "True"
             /\ canon = before.canon
             /\ backups = before.backups

\* C13: when the import file is missing, unreadable, not JSON or not a JSON
\* object, import_state returns False and leaves the state file and the
\* backup directory as they were; a state file that changed was given an
\* import file holding a JSON object.
C13_ImportValidates ==
    lastOp.op = "import" =>
        /\ lastOp.src # "object" =>
              /\ lastOp.ret = "False"
              /\ canon = before.canon
              /\ backups = before.backups
        /\ canon # before.canon => lastOp.src = "object"

\* a JSON array was refused over an existing state file
C13_Witness ==
    /\ lastOp.op = "import" /\ lastOp.src = "array"
    /\ lastOp.ret = "False"
    /\ Exists(before.canon)
    /\ canon = before.canon /\ backups = before.backups

\* the last save_state could not write its temporary file or replace the
\* state file with it
WriteFailed ==
    /\ lastOp.op = "save"
    /\ lastOp.how \notin Kills
    /\ lastOp.how \in {"open", "dump", "replace"} \/ ~lastOp.arg.serializable

\* C14: save_state returns True or False whatever fails, and when the
\* temporary file could not be written or the replace failed it returns False
\* with the state file holding what it held before.
C14_SaveReportsFailure ==
    /\ (lastOp.op = "save" /\ lastOp.how \notin Kills) => lastOp.ret \in {"True", "False"}
    /\ WriteFailed => /\ lastOp.ret = "False"
                      /\ canon = before.canon

\* the dump failed half way over an existing snapshot
C14_Witness ==
    /\ WriteFailed /\ lastOp.how = "dump"
    /\ lastOp.ret = "False"
    /\ tmp.kind = "partial"
    /\ before.canon.kind = "object"
    /\ canon = before.canon

(***************************************************************************)
(* Properties of DailyScraperJob.run and main                              *)
(***************************************************************************)
\* a run was made with dry_run off, under settings validate() accepts
NonDryRun == run.n > 0 /\ ~settings.dry_run /\ Validate(settings) = {}

\* the state file holds the snapshot the last run built
Persisted ==
    /\ run.saved = "True"
    /\ canon.kind = "object"
    /\ canon.data = StateWithMeta(run.new_state, now)

\* C15 (as claimed): a run with dry_run off either returns True with its new
\* snapshot in the state file, or returns False without having reached
\* save_state and with the state file as it was.
C15_SuccessIffPersisted ==
    NonDryRun =>
        /\ run.result = "True" => Persisted
        /\ run.result = "False" => (run.saved = "none" /\ canon = before.canon)

\* C16 (as claimed): when some but not all uploads of a run with dry_run off
\* fail, the run saves a snapshot, and the snapshot has no entry for a
\* document whose upload failed.
C16_PartialFailurePersists ==
    (/\ NonDryRun
     /\ run.failed # {}
     /\ run.failed # run.uploads)
    => /\ Persisted
       /\ \A u \in run.failed : u[2] \notin DOMAIN canon.data.articles.items

\* C17 (as claimed): with a chunk_size that is not greater than
\* min_chunk_size, main() starts no run.
C17_BadChunkSizesFatal ==
    "CHUNK_SIZE must be greater than MIN_CHUNK_SIZE" \in Validate(settings)
    => run.via # "main"

\* run reached _process_changes with dry_run off
Uploading == NonDryRun /\ run.stage \notin {"scrape", "detect"}

\* C22: with dry_run off the uploader is called with operation 'add' on
\* exactly the current documents whose id is in added and then with operation
\* 'update' on exactly those whose id is in updated, in the order of the
\* current list, and no document whose id is in unchanged is passed to it.
C22_OnlyDeltaUploaded ==
    Uploading =>
        LET Docs(ids) == SelectSeq(current, LAMBDA a : a.id \in ids)
            Expected(operation, ids) ==
                IF ids = {} THEN <<>>
                ELSE <<[operation |-> operation, articles |-> Docs(ids)]>>
        IN  /\ run.calls = Expected("add", run.changes.added)
                           \o Expected("update", run.changes.updated)
            /\ \A k \in DOMAIN run.calls :
                  \A i \in DOMAIN run.calls[k].articles :
                     run.calls[k].articles[i].id \notin run.changes.unchanged

\* a run that added one document, updated another and left a third alone
C22_Witness ==
    /\ Uploading
    /\ Len(run.calls) = 2
    /\ run.calls[1].operation = "add"
    /\ run.calls[2].operation = "update"
    /\ run.changes.unchanged # {}

\* loading, scraping, change detection and, with dry_run off, upload and save
\* all succeeded
StepsSucceeded ==
    /\ run.n > 0
    /\ Validate(settings) = {}
    /\ run.stage \notin {"scrape", "detect"}
    /\ ~settings.dry_run => (run.failed = {} /\ run.saved = "True")

\* C23 (as claimed): a run in which every step succeeded returns True and
\* records the job as completed successfully.
C23_SuccessReturnsTrue ==
    StepsSucceeded => (run.result = "True" /\ run.completion = "True")

\* a run was made with dry_run on
DryRun == run.n > 0 /\ settings.dry_run

\* C27: a run with dry_run on makes no call of the uploader and no call of
\* save_state, and leaves the state file, the temporary file and the backup
\* directory as they were before it, whatever scraping and detection gave.
C27_DryRunTouchesNothing ==
    DryRun =>
        /\ run.calls = <<>>
        /\ run.uploads = {}
        /\ run.saved = "none"
        /\ canon = before.canon
        /\ backups = before.backups
        /\ tmp = AbsentFile

\* a dry run over an existing state file that found documents to add and to
\* update
C27_Witness ==
    /\ DryRun
    /\ Exists(canon)
    /\ run.changes.added # {}
    /\ run.changes.updated # {}
    /\ run.stage \notin {"scrape", "detect"}
    /\ canon = before.canon

\* the state file the run loaded was written by an earlier run of the model
\* (with dry_run off, for a dry run writes none)
LoadedOwnSnapshot ==
    /\ run.n >= 2
    /\ before.canon.kind = "object"
    /\ before.canon.data.last_run # State1.last_run

\* the loaded snapshot has exactly the ids, fingerprints, titles and
\* last_modified values of the current documents
SameDocuments ==
    /\ DOMAIN previous = {current[i].id : i \in DOMAIN current}
    /\ \A i \in DOMAIN current :
          /\ previous[current[i].id].hash = current[i].content_hash
          /\ previous[current[i].id].title = current[i].title
          /\ previous[current[i].id].last_modified = current[i].last_modified

\* C28 (as claimed): a run with force off over the documents the persisted
\* snapshot of an earlier run describes classifies every document as
\* unchanged and uploads nothing.
C28_RunsConverge ==
    (/\ NonDryRun
     /\ ~settings.force_full_update
     /\ run.stage # "scrape"
     /\ LoadedOwnSnapshot
     /\ SameDocuments)
    => /\ ~run.changes.raised
       /\ run.changes.added = {}
       /\ run.changes.updated = {}
       /\ run.changes.removed = {}
       /\ run.changes.unchanged = DOMAIN previous
       /\ run.calls = <<>>

\* the run built new_state
BuiltSnapshot == run.n > 0 /\ run.stage \in {"log_final_stats", "done"}

\* both runs got as far as change detection
TwoDetections == run.n = 2 /\ Len(changes) = 2 /\ ~changes[2].raised

\* C29: the snapshot a run builds has an entry for exactly the ids of the
\* current list, with the content_hash of the document of that id as hash;
\* and an id removed by a run that persisted its snapshot is classified added
\* by the next run in which it is back.
C29_SnapshotIsCurrentList ==
    /\ BuiltSnapshot =>
          LET items == run.new_state.articles.items
          IN  /\ DOMAIN items = {current[i].id : i \in DOMAIN current}
              /\ \A id \in DOMAIN items : items[id].hash = DocOf(id).content_hash
    /\ (TwoDetections /\ LoadedOwnSnapshot) =>
          \A id \in changes[1].removed :
             id \in {current[i].id : i \in DOMAIN current} => id \in changes[2].added

\* y, in the first state file, was removed by run 1, which persisted its
\* snapshot, and is back in run 2, which classifies it added
C29_Witness ==
    /\ TwoDetections
    /\ LoadedOwnSnapshot
    /\ BuiltSnapshot
    /\ "y" \in changes[1].removed
    /\ "y" \in changes[2].added
    /\ "y" \in DOMAIN run.new_state.articles.items

(***************************************************************************)
(* Properties of MarkdownChunker.chunk_file                                *)
(***************************************************************************)
\* the body has text that is not whitespace
NonBlankBody ==
    doc.intro > 0 \/ \E i \in DOMAIN doc.sections : ~BlankSection(doc.sections[i])

\* C18 (as claimed): chunk_file returns at least one chunk for a body that is
\* not blank, and a chunk whose section content is shorter than
\* MIN_CHUNK_SIZE only as the sole chunk of its document.
C18_NeverZeroChunks ==
    (loop.pc = "done" /\ NonBlankBody) =>
        /\ Len(chunks) >= 1
        /\ \A i \in DOMAIN chunks :
              chunks[i].size < MIN_CHUNK_SIZE => Len(chunks) = 1

\* C26 (as claimed): for a file with a leading metadata block, whatever lies
\* between the delimiters, chunk_file returns one chunk per section of the
\* document, each with a context header whose article line is the title
\* the block gives or "Unknown Title".
C26_MalformedFrontMatter ==
    (loop.pc # "idle" /\ doc.front.yaml # "absent") =>
        /\ loop.pc = "done"
        /\ Len(chunks) = Len(SplitByHeaders(doc))
        /\ \A i \in DOMAIN chunks :
              chunks[i].article = IF doc.front.title_line THEN "T" ELSE "Unknown Title"

(***************************************************************************)
(* Properties of VectorStoreUploader._create_chunks                        *)
(***************************************************************************)
\* _create_chunks has returned
Returns == loop.pc = "done" /\ doc # EmptyMap /\ "len" \in DOMAIN doc

\* the chunks carry chunk_index 0, 1, ..., n-1 in the order of their windows
\* and total_chunks n
ChunksIndexed ==
    /\ \A i \in DOMAIN chunks :
          /\ chunks[i].chunk_index = i - 1
          /\ chunks[i].total_chunks = Len(chunks)
    /\ \A i, j \in DOMAIN chunks : i < j => chunks[i].start < chunks[j].start

\* the windows of which a chunk was made
KeptWindows == {i \in DOMAIN loop.windows : loop.windows[i].kept}

\* C19 (as claimed): the chunks _create_chunks returns carry chunk_index 0,
\* 1, ..., n-1 in reading order and total_chunks n, and a body longer than
\* chunk_size gives at least two chunks, each of at least min_chunk_size
\* characters.
C19_IndexedChunks ==
    Returns =>
        /\ ChunksIndexed
        /\ doc.len > settings.chunk_size =>
              /\ Len(chunks) >= 2
              /\ \A i \in DOMAIN chunks : chunks[i].size >= settings.min_chunk_size

\* C19 (amended): the chunks _create_chunks returns carry chunk_index 0, 1,
\* ..., n-1 in reading order and total_chunks n; for a body longer than
\* chunk_size, n is the number of windows whose stripped text has at least
\* min_chunk_size characters, every chunk has at least that many, and n >= 2
\* when no window was dropped.
C19_IndexedKeptWindows ==
    Returns =>
        /\ ChunksIndexed
        /\ Len(chunks) = Cardinality(KeptWindows)
        /\ doc.len > settings.chunk_size =>
              /\ \A i \in DOMAIN chunks : chunks[i].size >= settings.min_chunk_size
              /\ KeptWindows = DOMAIN loop.windows => Len(chunks) >= 2

\* a window was dropped before the window of the first chunk
C19_Witness ==
    /\ Returns
    /\ doc.len > settings.chunk_size
    /\ Len(chunks) >= 1
    /\ chunks[1].chunk_index = 0
    /\ chunks[1].start > 0
    /\ ~loop.windows[1].kept

\* C20: the windows of _create_chunks start at 0 and advance, each begins at
\* or before the end of the one before it and at most 200 characters before
\* it, and when _create_chunks has returned the last one reaches the end of
\* the content and every character of the content lies in a window.
C20_WindowsCover ==
    LET w == loop.windows
    IN  /\ w # <<>> => w[1].start = 0
        /\ \A i \in DOMAIN w :
              i < Len(w) => /\ w[i].start < w[i + 1].start
                            /\ w[i + 1].start <= w[i].end
                            /\ w[i].end - w[i + 1].start <= Overlap
        /\ Returns =>
              /\ w # <<>>
              /\ w[Len(w)].end >= doc.len
              /\ \A p \in 0..(doc.len - 1) :
                    \E i \in DOMAIN w : w[i].start <= p /\ p < w[i].end

\* a body cut into three windows, the first ending after a full stop
C20_Witness ==
    /\ Returns
    /\ Len(loop.windows) >= 3
    /\ loop.windows[1].end < settings.chunk_size
    /\ loop.windows[1].end - 1 \in doc.dots
    /\ loop.windows[2].start = loop.windows[1].end - Overlap
    /\ loop.windows[Len(loop.windows)].end >= doc.len

\* C30: on every turn of the splitting loop start grows by at least 1, and
\* every call of _create_chunks returns, for chunk_size above and below the
\* overlap of 200.
C30_LoopTerminates ==
    /\ [][(loop.pc = "loop" /\ loop'.pc = "loop") => loop'.start >= loop.start + 1]_vars
    /\ <>(loop.pc = "done")

\* a call with chunk_size below the overlap that took more turns than the
\* content has windows of chunk_size characters, and returned
C30_Witness ==
    /\ Returns
    /\ settings.chunk_size <= Overlap
    /\ doc.len > settings.chunk_size
    /\ Len(loop.windows) > 3
    /\ loop.start >= doc.len

(***************************************************************************)
(* Properties of compute_content_hash                                      *)
(***************************************************************************)
\* C21: compute_content_hash gives one digest to two texts that differ only
\* in line-ending style or in leading and trailing whitespace, and the
\* digest of the normalized text is the digest of the text.
C21_HashNormalizes ==
    /\ (Len(hashes) >= 2 /\ texts \in Variants) => hashes[1] = hashes[2]
    /\ Len(hashes) >= 3 => hashes[3] = hashes[1]
    /\ Len(hashes) = 4 => hashes[4] = hashes[2]

\* a text with LF line endings and the same text with CR line endings and
\* whitespace around it
C21_Witness ==
    /\ Len(hashes) = 4
    /\ texts \in Variants
    /\ \E i \in DOMAIN texts[1] : texts[1][i] = LF
    /\ \E i \in DOMAIN texts[2] : texts[2][i] = CR /\ i < Len(texts[2])
                                  /\ texts[2][i + 1] = "a"
    /\ texts[2][1] = " "
    /\ hashes[1] = hashes[2]
    /\ hashes[3] = hashes[1]

====
